---- MODULE Spec2Model ----
(***************************************************************************)
(* Announcements router of the High School Management System API           *)
(* (src/src/backend/routers/announcements.py).                             *)
(*                                                                         *)
(* Python strings are modelled as sequences of character codes, so that    *)
(* the string comparison of get_active_announcements, the date validation  *)
(* of create/update (datetime.fromisoformat) and the ObjectId <-> str      *)
(* conversions are computed rather than assumed.                           *)
(***************************************************************************)
EXTENDS Integers, Sequences

VARIABLES
    store,      \* announcements_collection: documents in insertion order
    nextId,     \* number of ObjectIds the store has generated so far
    clock,      \* index into Times: the wall clock read by datetime.now
    resp,       \* the last request's operation and the status line of its response
    deleted,    \* history: ObjectIds whose delete succeeded
    pc,         \* concurrent handlers: position of each request in its handler
    local       \* concurrent handlers: the locals of each request

vars == <<store, nextId, clock, resp, deleted, pc, local>>

----------------------------------------------------------------------------
(* Bounds of the model *)

\* at most this many documents are ever inserted
MaxCreates == 2

----------------------------------------------------------------------------
(* Python values *)

\* Python's None (no character has code -1)
None == <<-1>>

\* truthiness of an optional string: `if announcement.get("start_date")`
Truthy(s) == s # None /\ s # <<>>

RECURSIVE StrLess(_, _)
\* str.__lt__: lexicographic comparison by code point
StrLess(a, b) ==
    IF b = <<>> THEN FALSE
    ELSE IF a = <<>> THEN TRUE
    ELSE IF Head(a) = Head(b) THEN StrLess(Tail(a), Tail(b))
    ELSE Head(a) < Head(b)

RECURSIVE ReplaceZ(_)
\* s.replace('Z', '+00:00')
ReplaceZ(s) ==
    IF s = <<>> THEN <<>>
    ELSE IF Head(s) = 90 THEN <<43, 48, 48, 58, 48, 48>> \o ReplaceZ(Tail(s))
    ELSE <<Head(s)>> \o ReplaceZ(Tail(s))

IsDigit(c) == c \in 48..57

\* the number written by the two digits at positions i, i+1
Num2(s, i) == (s[i] - 48) * 10 + (s[i + 1] - 48)

Digits2(s, i) == IsDigit(s[i]) /\ IsDigit(s[i + 1])

\* two decimal digits of n, as written by isoformat
D2(n) == <<48 + (n \div 10), 48 + (n % 10)>>

RECURSIVE DN(_, _)
\* n written with exactly w digits (zero padded)
DN(n, w) == IF w = 0 THEN <<>> ELSE DN(n \div 10, w - 1) \o <<48 + (n % 10)>>

RECURSIVE NumN(_, _, _)
\* the number written by the w digits of s starting at i
NumN(s, i, w) == IF w = 0 THEN 0 ELSE NumN(s, i, w - 1) * 10 + (s[i + w - 1] - 48)

IsLeap(y) == (y % 4 = 0 /\ y % 100 # 0) \/ y % 400 = 0

DaysInMonth(y, m) ==
    IF m = 2 THEN (IF IsLeap(y) THEN 29 ELSE 28)
    ELSE IF m \in {4, 6, 9, 11} THEN 30 ELSE 31

\* days from 1970-01-01 to y-m-d in the proleptic Gregorian calendar
DaysFromCivil(y, m, d) ==
    LET yy  == IF m <= 2 THEN y - 1 ELSE y
        era == yy \div 400
        yoe == yy - era * 400
        mp  == IF m > 2 THEN m - 3 ELSE m + 9
        doy == (153 * mp + 2) \div 5 + d - 1
        doe == yoe * 365 + yoe \div 4 - yoe \div 100 + doy
    IN era * 146097 + doe - 719468

\* The layouts of datetime.fromisoformat the model knows, by length of the
\* string: 10 YYYY-MM-DD, 19 + HH:MM:SS after a separator, 26 + .ffffff,
\* 25 / 32 the same followed by a UTC offset (+HH:MM or -HH:MM).
DateOK(t) ==
    /\ Len(t) >= 10
    /\ \A i \in {1, 2, 3, 4, 6, 7, 9, 10} : IsDigit(t[i])
    /\ t[5] = 45 /\ t[8] = 45
    /\ NumN(t, 1, 4) >= 1
    /\ Num2(t, 6) \in 1..12
    /\ Num2(t, 9) \in 1..DaysInMonth(NumN(t, 1, 4), Num2(t, 6))

TimeOK(t) ==
    /\ Len(t) >= 19
    /\ Digits2(t, 12) /\ t[14] = 58 /\ Digits2(t, 15) /\ t[17] = 58 /\ Digits2(t, 18)
    /\ Num2(t, 12) \in 0..23 /\ Num2(t, 15) \in 0..59 /\ Num2(t, 18) \in 0..59

FracOK(t) ==
    /\ Len(t) >= 26
    /\ t[20] = 46
    /\ \A i \in 21..26 : IsDigit(t[i])

\* a UTC offset at positions i .. i+5
OffsetOK(t, i) ==
    /\ Len(t) = i + 5
    /\ t[i] \in {43, 45}
    /\ Digits2(t, i + 1) /\ t[i + 3] = 58 /\ Digits2(t, i + 4)
    /\ Num2(t, i + 1) \in 0..23 /\ Num2(t, i + 4) \in 0..59

\* datetime.fromisoformat(s.replace('Z', '+00:00')) does not raise ValueError
IsIsoFormat(s) ==
    LET t == ReplaceZ(s) IN
    /\ DateOK(t)
    /\ \/ Len(t) = 10
       \/ TimeOK(t) /\ Len(t) = 19
       \/ TimeOK(t) /\ OffsetOK(t, 20)
       \/ TimeOK(t) /\ FracOK(t) /\ Len(t) = 26
       \/ TimeOK(t) /\ FracOK(t) /\ OffsetOK(t, 27)

\* seconds east of UTC of the offset at positions i .. i+5
OffsetSeconds(t, i) ==
    (IF t[i] = 45 THEN -1 ELSE 1) * (Num2(t, i + 1) * 3600 + Num2(t, i + 4) * 60)

\* The instant a parsable timestamp denotes: <<seconds since 1970-01-01T00:00Z,
\* microseconds>>.  A timestamp without offset is read as UTC.
Instant(s) ==
    LET t    == ReplaceZ(s)
        n    == Len(t)
        days == DaysFromCivil(NumN(t, 1, 4), Num2(t, 6), Num2(t, 9))
        tod  == IF n = 10 THEN 0
                ELSE Num2(t, 12) * 3600 + Num2(t, 15) * 60 + Num2(t, 18)
        us   == IF n \in {26, 32} THEN NumN(t, 21, 6) ELSE 0
        off  == IF n = 25 THEN OffsetSeconds(t, 20)
                ELSE IF n = 32 THEN OffsetSeconds(t, 27) ELSE 0
    IN <<days * 86400 + tod - off, us>>

\* instant a is strictly before instant b
Before(a, b) == a[1] < b[1] \/ (a[1] = b[1] /\ a[2] < b[2])


----------------------------------------------------------------------------
(* bson.ObjectId and its string form *)

\* value of a hexadecimal digit, -1 for any other character
HexVal(c) ==
    IF c \in 48..57 THEN c - 48
    ELSE IF c \in 97..102 THEN c - 87
    ELSE IF c \in 65..70 THEN c - 55
    ELSE -1

\* ObjectId(announcement_id) does not raise: 24 hexadecimal digits
IsObjectIdStr(s) == Len(s) = 24 /\ \A i \in 1..24 : HexVal(s[i]) >= 0

RECURSIVE HexNum(_, _)
\* the number written by the first w hexadecimal digits of s
HexNum(s, w) == IF w = 0 THEN 0 ELSE HexNum(s, w - 1) * 16 + HexVal(s[w])

\* ObjectId(announcement_id): the identifier as a number
ObjectId(s) == HexNum(s, 24)

RECURSIVE HexStr(_, _)
\* n written with exactly w lower-case hexadecimal digits
HexStr(n, w) ==
    IF w = 0 THEN <<>>
    ELSE HexStr(n \div 16, w - 1)
            \o <<IF (n % 16) < 10 THEN 48 + (n % 16) ELSE 87 + (n % 16)>>

\* str(oid): 24 lower-case hexadecimal digits
Str(oid) == HexStr(oid, 24)

\* the n-th ObjectId the store generates (insert_one assigns _id)
GeneratedId(n) == n

----------------------------------------------------------------------------
(* The wall clock *)

\* readings of datetime.now(timezone.utc), in the order the clock passes them:
\* 2026-11-02 12:00:00 and 12:00:00.250000
Times == << [h |-> 12, us |-> 0], [h |-> 12, us |-> 250000] >>

\* datetime.isoformat() of a UTC reading: the fraction is written only when
\* the microsecond is not 0, the offset always as +00:00
IsoFormat(t) ==
    <<50, 48, 50, 54, 45, 49, 49, 45, 48, 50, 84>> \o D2(t.h) \o <<58, 48, 48, 58, 48, 48>>
        \o (IF t.us = 0 THEN <<>> ELSE <<46>> \o DN(t.us, 6))
        \o <<43, 48, 48, 58, 48, 48>>

\* datetime.now(timezone.utc).isoformat() when the clock stands at c
Now(c) == IsoFormat(Times[c])

----------------------------------------------------------------------------
(* Request inputs *)

\* teachers_collection: the usernames that have a teacher record
Teachers == {"mrodriguez"}

Usernames == {"mrodriguez", "student1"}

\* "2000-01-01T00:00:00Z"
DPast == <<50,48,48,48,45,48,49,45,48,49,84,48,48,58,48,48,58,48,48,90>>
\* "2026-11-02T12:00:00+00:00", the first reading of the clock
DNoon == <<50,48,50,54,45,49,49,45,48,50,84,49,50,58,48,48,58,48,48,43,48,48,58,48,48>>
\* "2026-11-02T12:00:00.250000+00:00", the second reading of the clock
DLater == <<50,48,50,54,45,49,49,45,48,50,84,49,50,58,48,48,58,48,48,
            46,50,53,48,48,48,48,43,48,48,58,48,48>>
\* "2026-11-02T16:00:00+05:00", the instant 11:00:00 UTC of that day
DEast == <<50,48,50,54,45,49,49,45,48,50,84,49,54,58,48,48,58,48,48,43,48,53,58,48,48>>
\* "soon"
Garbage == <<115,111,111,110>>
\* "hi", "bye"
MsgHi == <<104,105>>
MsgBye == <<98,121,101>>

Payload(m, s, e) == [message |-> m, start_date |-> s, expiration_date |-> e]

\* AnnouncementCreate bodies that pass the schema (message of 1..500
\* characters, start_date a string or None, expiration_date a string)
CreatePayloads ==
    { Payload(MsgHi, s, e) : s \in {None, <<>>, DLater, Garbage},
                             e \in {DPast, DEast, Garbage, <<>>} }

\* AnnouncementUpdate bodies that pass the schema (every field a string or None)
UpdatePayloads ==
    { Payload(m, s, e) : m \in {None, MsgBye},
                         s \in {None, Garbage},
                         e \in {None, DNoon, Garbage} }

\* the bodies the explored requests carry: both kinds of stored announcement
\* and every way a create fails ...
SentCreates ==
    { Payload(MsgHi, None, DPast),
      Payload(MsgHi, DLater, DEast),
      Payload(MsgHi, Garbage, DPast),
      Payload(MsgHi, None, Garbage),
      Payload(MsgHi, <<>>, <<>>) }

\* ... and every outcome of an update
SentUpdates ==
    { Payload(None, None, None),
      Payload(MsgBye, None, DNoon),
      Payload(None, Garbage, None),
      Payload(MsgBye, None, Garbage) }

\* "not-an-id"
BadId == <<110,111,116,45,97,110,45,105,100>>

\* announcement_id path parameters: every identifier the store may generate
\* (unknown until it is generated and again once it is deleted) and a malformed one
IdInputs == { Str(GeneratedId(n)) : n \in 1..MaxCreates } \cup { BadId }

----------------------------------------------------------------------------
(* The conversions above, evaluated once for every string that occurs *)

\* every value a start_date or expiration_date takes
DateStrings ==
    UNION { {p.start_date, p.expiration_date} : p \in CreatePayloads \cup UpdatePayloads }

\* every value of current_date
NowStrings == { Now(c) : c \in 1..Len(Times) }

\* IsIsoFormat, tabulated
Parsable == [s \in DateStrings |-> IsIsoFormat(s)]

\* StrLess, tabulated
Less == [a \in DateStrings \cup NowStrings |->
            [b \in DateStrings \cup NowStrings |-> StrLess(a, b)]]

\* ObjectId(announcement_id), tabulated: <<oid>>, or <<>> when the constructor raises
ObjectIds == [s \in IdInputs |-> IF IsObjectIdStr(s) THEN <<ObjectId(s)>> ELSE <<>>]

\* str(oid), tabulated
Strs == [n \in 0..(MaxCreates + 1) |-> Str(GeneratedId(n))]

----------------------------------------------------------------------------
(* The document store *)

\* announcement["_id"] = str(announcement["_id"])
Stringify(doc) == [doc EXCEPT !._id = Strs[doc._id]]

\* list(announcements_collection.find({})) with every _id stringified
StringifyAll(docs) == [i \in 1..Len(docs) |-> Stringify(docs[i])]

\* find_one({"_id": oid}): <<doc>>, or <<>> for Python's None
FindOne(st, oid) ==
    LET hits == SelectSeq(st, LAMBDA d : d._id = oid)
    IN IF hits = <<>> THEN <<>> ELSE <<Head(hits)>>

\* update_one({"_id": oid}, {"$set": update_doc}); matching nothing changes nothing
UpdateOne(st, oid, update_doc) ==
    [i \in 1..Len(st) |->
        IF st[i]._id = oid
        THEN [k \in DOMAIN st[i] |->
                 IF k \in DOMAIN update_doc THEN update_doc[k] ELSE st[i][k]]
        ELSE st[i]]

\* delete_one({"_id": oid}): the collection afterwards
DeleteOne(st, oid) == SelectSeq(st, LAMBDA d : d._id # oid)

\* result.deleted_count of delete_one
DeletedCount(st, oid) == Len(st) - Len(DeleteOne(st, oid))

\* InsertOne with the identifier taken from the size of the collection
InsertOneByCount(st, n, doc) ==
    Append(st, [_id |-> GeneratedId(Len(st) + 1),
                message |-> doc.message,
                start_date |-> doc.start_date,
                expiration_date |-> doc.expiration_date,
                created_by |-> doc.created_by,
                created_at |-> doc.created_at])

\* insert_one(doc): the store assigns the next ObjectId
InsertOne(st, n, doc) ==
    Append(st, [_id |-> GeneratedId(n + 1),
                message |-> doc.message,
                start_date |-> doc.start_date,
                expiration_date |-> doc.expiration_date,
                created_by |-> doc.created_by,
                created_at |-> doc.created_at])

----------------------------------------------------------------------------
(* Handlers: each maps the collection and the request to the response and  *)
(* the collection afterwards                                               *)

\* Authenticated without the lookup: any username passes
AuthenticatedAnyone(username) == username \in Usernames

\* teachers_collection.find_one({"_id": username}) is not None
Authenticated(username) == username \in Teachers

\* raise HTTPException(status_code, detail): the collection is as it was
Raise(status, detail, st, n) ==
    [status |-> status, detail |-> detail, body |-> <<>>, store |-> st, nextId |-> n]

\* a handler returned normally
Ok(detail, body, st, n) ==
    [status |-> 200, detail |-> detail, body |-> body, store |-> st, nextId |-> n]

\* the announcement has not started: start_date is set and is after current_date
NotStarted(announcement, current_date) ==
    Truthy(announcement.start_date) /\ Less[current_date][announcement.start_date]

\* Expired with <= for <: an announcement expiring now counts as expired
ExpiredAtOrBefore(announcement, current_date) ==
    /\ Truthy(announcement.expiration_date)
    /\ ~Less[current_date][announcement.expiration_date]

\* the announcement has expired: expiration_date is set and is before current_date
Expired(announcement, current_date) ==
    Truthy(announcement.expiration_date) /\ Less[announcement.expiration_date][current_date]

RECURSIVE ActiveLoop(_, _)
\* the filter loop of get_active_announcements
ActiveLoop(announcements, current_date) ==
    IF announcements = <<>> THEN <<>>
    ELSE LET announcement == Head(announcements)
             rest == ActiveLoop(Tail(announcements), current_date)
         IN IF NotStarted(announcement, current_date) THEN rest
            ELSE IF Expired(announcement, current_date) THEN rest
            ELSE <<Stringify(announcement)>> \o rest

get_active_announcements(st, n, current_date) ==
    Ok("", ActiveLoop(st, current_date), st, n)

get_all_announcements(st, n, username) ==
    IF ~Authenticated(username) THEN Raise(401, "Authentication required", st, n)
    ELSE Ok("", StringifyAll(st), st, n)

\* the try block of create_announcement raises no ValueError
CreateDatesValid(announcement) ==
    /\ Truthy(announcement.start_date) => Parsable[announcement.start_date]
    /\ Parsable[announcement.expiration_date]

\* announcement_doc of create_announcement
AnnouncementDoc(announcement, username, current_date) ==
    [message |-> announcement.message,
     start_date |-> announcement.start_date,
     expiration_date |-> announcement.expiration_date,
     created_by |-> username,
     created_at |-> current_date]

create_announcement(st, n, current_date, announcement, username) ==
    IF ~Authenticated(username) THEN Raise(401, "Authentication required", st, n)
    ELSE IF ~CreateDatesValid(announcement) THEN Raise(400, "Invalid date format", st, n)
    ELSE LET st2 == InsertOne(st, n, AnnouncementDoc(announcement, username, current_date))
         IN Ok("", <<Stringify(st2[Len(st2)])>>, st2, n + 1)

\* BuildUpdateDoc without the `is not None` tests: every field of the body is set
BuildUpdateDocAllFields(announcement) ==
    [k \in {"message", "start_date", "expiration_date"} |-> announcement[k]]

\* update_doc of update_announcement: the fields of the body that are not None
BuildUpdateDoc(announcement) ==
    [k \in {f \in {"message", "start_date", "expiration_date"} : announcement[f] # None}
        |-> announcement[k]]

\* building update_doc raises no ValueError
UpdateDatesValid(announcement) ==
    announcement.expiration_date # None => Parsable[announcement.expiration_date]

\* update_announcement with the empty-body test moved before the lookup
update_announcement_fields_first(st, n, announcement_id, announcement, username) ==
    LET oid == ObjectIds[announcement_id] IN
    IF ~Authenticated(username) THEN Raise(401, "Authentication required", st, n)
    ELSE IF oid = <<>> THEN Raise(400, "Invalid announcement ID", st, n)
    ELSE IF DOMAIN BuildUpdateDoc(announcement) = {} THEN Raise(400, "No fields to update", st, n)
    ELSE IF FindOne(st, oid[1]) = <<>> THEN Raise(404, "Announcement not found", st, n)
    ELSE IF ~UpdateDatesValid(announcement) THEN Raise(400, "Invalid date format", st, n)
    ELSE LET st2 == UpdateOne(st, oid[1], BuildUpdateDoc(announcement))
         IN Ok("", StringifyAll(FindOne(st2, oid[1])), st2, n)

\* update_announcement writing each field as soon as it is read from the body:
\* message and start_date are stored before expiration_date is validated
update_announcement_field_by_field(st, n, announcement_id, announcement, username) ==
    LET oid == ObjectIds[announcement_id]
        early == [k \in DOMAIN BuildUpdateDoc(announcement) \ {"expiration_date"}
                     |-> announcement[k]]
    IN
    IF ~Authenticated(username) THEN Raise(401, "Authentication required", st, n)
    ELSE IF oid = <<>> THEN Raise(400, "Invalid announcement ID", st, n)
    ELSE IF FindOne(st, oid[1]) = <<>> THEN Raise(404, "Announcement not found", st, n)
    ELSE IF ~UpdateDatesValid(announcement)
         THEN Raise(400, "Invalid date format", UpdateOne(st, oid[1], early), n)
    ELSE IF DOMAIN BuildUpdateDoc(announcement) = {} THEN Raise(400, "No fields to update", st, n)
    ELSE LET st2 == UpdateOne(st, oid[1], BuildUpdateDoc(announcement))
         IN Ok("", StringifyAll(FindOne(st2, oid[1])), st2, n)

update_announcement(st, n, announcement_id, announcement, username) ==
    LET oid == ObjectIds[announcement_id] IN
    IF ~Authenticated(username) THEN Raise(401, "Authentication required", st, n)
    ELSE IF oid = <<>> THEN Raise(400, "Invalid announcement ID", st, n)
    ELSE IF FindOne(st, oid[1]) = <<>> THEN Raise(404, "Announcement not found", st, n)
    ELSE IF ~UpdateDatesValid(announcement) THEN Raise(400, "Invalid date format", st, n)
    ELSE IF DOMAIN BuildUpdateDoc(announcement) = {} THEN Raise(400, "No fields to update", st, n)
    ELSE LET st2 == UpdateOne(st, oid[1], BuildUpdateDoc(announcement))
         IN Ok("", StringifyAll(FindOne(st2, oid[1])), st2, n)

delete_announcement(st, n, announcement_id, username) ==
    LET oid == ObjectIds[announcement_id] IN
    IF ~Authenticated(username) THEN Raise(401, "Authentication required", st, n)
    ELSE IF oid = <<>> THEN Raise(400, "Invalid announcement ID", st, n)
    ELSE IF DeletedCount(st, oid[1]) = 0
         THEN Raise(404, "Announcement not found", DeleteOne(st, oid[1]), n)
    ELSE Ok("Announcement deleted successfully", <<>>, DeleteOne(st, oid[1]), n)

----------------------------------------------------------------------------
(* Sequential requests: every handler runs to completion *)

\* what the client sees of a handler's result r
Response(op, r) == [op |-> op, status |-> r.status, detail |-> r.detail]

Idle == [p \in {} |-> 0]

Init ==
    /\ store = <<>>
    /\ nextId = 0
    /\ clock = 1
    /\ resp = [op |-> "none", status |-> 0, detail |-> ""]
    /\ deleted = {}
    /\ pc = Idle
    /\ local = Idle

\* time passes between requests
Tick ==
    /\ clock < Len(Times)
    /\ clock' = clock + 1
    /\ UNCHANGED <<store, nextId, resp, deleted, pc, local>>

ListActive ==
    \E r \in {get_active_announcements(store, nextId, Now(clock))} :
    /\ resp' = Response("list_active", r)
    /\ store' = r.store
    /\ UNCHANGED <<nextId, clock, deleted, pc, local>>

ListAll(username) ==
    \E r \in {get_all_announcements(store, nextId, username)} :
    /\ resp' = Response("list_all", r)
    /\ store' = r.store
    /\ UNCHANGED <<nextId, clock, deleted, pc, local>>

Create(announcement, username) ==
    \E r \in {create_announcement(store, nextId, Now(clock), announcement, username)} :
    /\ r.nextId <= MaxCreates
    /\ resp' = Response("create", r)
    /\ store' = r.store
    /\ nextId' = r.nextId
    /\ UNCHANGED <<clock, deleted, pc, local>>

Update(announcement_id, announcement, username) ==
    \E r \in {update_announcement(store, nextId, announcement_id, announcement, username)} :
    /\ resp' = Response("update", r)
    /\ store' = r.store
    /\ UNCHANGED <<nextId, clock, deleted, pc, local>>

Delete(announcement_id, username) ==
    \E r \in {delete_announcement(store, nextId, announcement_id, username)} :
    /\ resp' = Response("delete", r)
    /\ store' = r.store
    /\ deleted' = IF r.status = 200 THEN deleted \cup {ObjectIds[announcement_id][1]} ELSE deleted
    /\ UNCHANGED <<nextId, clock, pc, local>>

Next ==
    \/ Tick
    \/ ListActive
    \/ \E u \in Usernames : ListAll(u)
    \/ \E a \in SentCreates, u \in Usernames : Create(a, u)
    \/ \E i \in IdInputs, a \in SentUpdates, u \in Usernames : Update(i, a, u)
    \/ \E i \in IdInputs, u \in Usernames : Delete(i, u)

Spec == Init /\ [][Next]_vars

----------------------------------------------------------------------------
(* Concurrent requests: update and delete handlers interleave between their *)
(* store calls; each find_one, update_one and delete_one is atomic          *)

\* the requests in flight
Procs == {1, 2}

\* the announcement the concurrent requests are about is created with this body
ConcCreates == { Payload(MsgHi, None, DPast) }

\* the bodies of the concurrent updates
ConcUpdates == { Payload(None, None, None), Payload(MsgBye, None, DNoon) }

\* locals of a handler that is not running: the operation and status of its
\* last response (status 0: none yet)
Finished(op, status) == [op |-> op, id |-> <<>>, update_doc |-> <<>>, status |-> status]

\* locals of a running handler
Running(op, announcement_id, update_doc) ==
    [op |-> op, id |-> announcement_id, update_doc |-> update_doc, status |-> 0]

InitConc ==
    /\ store = <<>>
    /\ nextId = 0
    /\ clock = 1
    /\ resp = [op |-> "none", status |-> 0, detail |-> ""]
    /\ deleted = {}
    /\ pc = [p \in Procs |-> "idle"]
    /\ local = [p \in Procs |-> Finished("none", 0)]

\* a teacher's create, run to completion
ConcCreate ==
    \E a \in ConcCreates, username \in Teachers :
        \E r \in {create_announcement(store, nextId, Now(clock), a, username)} :
            /\ r.nextId <= MaxCreates
            /\ resp' = Response("create", r)
            /\ store' = r.store
            /\ nextId' = r.nextId
            /\ UNCHANGED <<clock, deleted, pc, local>>

\* update_announcement up to its first call on the collection: the teacher
\* lookup, then find_one is due (the body travels in update_doc)
BeginUpdate(p) ==
    /\ pc[p] = "idle"
    /\ \E i \in IdInputs, a \in ConcUpdates, username \in Usernames :
          IF ~Authenticated(username)
          THEN /\ local' = [local EXCEPT ![p] = Finished("update", 401)]
               /\ pc' = pc
          ELSE /\ local' = [local EXCEPT ![p] = Running("update", i, a)]
               /\ pc' = [pc EXCEPT ![p] = "update_find"]
    /\ UNCHANGED <<store, nextId, clock, resp, deleted>>

\* find_one, then the construction of update_doc, up to update_one
UpdateFind(p) ==
    /\ pc[p] = "update_find"
    /\ LET oid == ObjectIds[local[p].id]
           a   == local[p].update_doc
           status == IF oid = <<>> THEN 400
                     ELSE IF FindOne(store, oid[1]) = <<>> THEN 404
                     ELSE IF ~UpdateDatesValid(a) THEN 400
                     ELSE IF DOMAIN BuildUpdateDoc(a) = {} THEN 400
                     ELSE 0
       IN IF status # 0
          THEN /\ local' = [local EXCEPT ![p] = Finished("update", status)]
               /\ pc' = [pc EXCEPT ![p] = "idle"]
          ELSE /\ local' = [local EXCEPT ![p].update_doc = BuildUpdateDoc(a)]
               /\ pc' = [pc EXCEPT ![p] = "update_write"]
    /\ UNCHANGED <<store, nextId, clock, resp, deleted>>

\* update_one
UpdateWrite(p) ==
    /\ pc[p] = "update_write"
    /\ store' = UpdateOne(store, ObjectIds[local[p].id][1], local[p].update_doc)
    /\ pc' = [pc EXCEPT ![p] = "update_read"]
    /\ UNCHANGED <<nextId, clock, resp, deleted, local>>

\* the second find_one and updated_announcement["_id"]: subscripting None raises
\* TypeError, which no handler catches (the framework answers 500)
UpdateRead(p) ==
    /\ pc[p] = "update_read"
    /\ local' = [local EXCEPT ![p] =
                    Finished("update",
                             IF FindOne(store, ObjectIds[local[p].id][1]) = <<>>
                             THEN 500 ELSE 200)]
    /\ pc' = [pc EXCEPT ![p] = "idle"]
    /\ UNCHANGED <<store, nextId, clock, resp, deleted>>

\* delete_announcement up to delete_one
BeginDelete(p) ==
    /\ pc[p] = "idle"
    /\ \E i \in IdInputs, username \in Usernames :
          IF ~Authenticated(username)
          THEN /\ local' = [local EXCEPT ![p] = Finished("delete", 401)]
               /\ pc' = pc
          ELSE /\ local' = [local EXCEPT ![p] = Running("delete", i, <<>>)]
               /\ pc' = [pc EXCEPT ![p] = "delete_one"]
    /\ UNCHANGED <<store, nextId, clock, resp, deleted>>

\* delete_one and the test of deleted_count
DeleteStep(p) ==
    /\ pc[p] = "delete_one"
    /\ LET oid == ObjectIds[local[p].id]
           status == IF oid = <<>> THEN 400
                     ELSE IF DeletedCount(store, oid[1]) = 0 THEN 404
                     ELSE 200
       IN /\ store' = IF oid = <<>> THEN store ELSE DeleteOne(store, oid[1])
          /\ deleted' = IF status = 200 THEN deleted \cup {oid[1]} ELSE deleted
          /\ local' = [local EXCEPT ![p] = Finished("delete", status)]
    /\ pc' = [pc EXCEPT ![p] = "idle"]
    /\ UNCHANGED <<nextId, clock, resp>>

NextConc ==
    \/ ConcCreate
    \/ \E p \in Procs : BeginUpdate(p)
    \/ \E p \in Procs : UpdateFind(p)
    \/ \E p \in Procs : UpdateWrite(p)
    \/ \E p \in Procs : UpdateRead(p)
    \/ \E p \in Procs : BeginDelete(p)
    \/ \E p \in Procs : DeleteStep(p)

SpecConc == InitConc /\ [][NextConc]_vars

----------------------------------------------------------------------------
(* Properties *)

\* the stringified identifiers a response body lists
Listed(body) == { body[k]._id : k \in 1..Len(body) }

\* the body of get_active_announcements in the current state
ActiveNow == get_active_announcements(store, nextId, Now(clock)).body

\* the body of get_all_announcements for a teacher in the current state
AllNow == get_all_announcements(store, nextId, "mrodriguez").body

\* a <= b in the order of Python strings
StrLessEq(a, b) == a = b \/ StrLess(a, b)

\* the announcement passes both date checks, as comparisons of strings
InStringWindow(a, now) ==
    /\ ~(Truthy(a.start_date) /\ StrLess(now, a.start_date))
    /\ ~(Truthy(a.expiration_date) /\ StrLess(a.expiration_date, now))

\* the expiration_date of the announcement denotes an instant before now
ExpirationInPast(a, now) ==
    IsIsoFormat(a.expiration_date) /\ Before(Instant(a.expiration_date), Instant(now))

\* C1 (the filter as a comparison of strings): the active list is exactly the
\* stored announcements that are neither not yet started nor expired, each with
\* its identifier stringified, in stored order, and the store is not changed.
ActiveIsStringWindow ==
    LET r == get_active_announcements(store, nextId, Now(clock)) IN
    /\ r.status = 200
    /\ r.store = store
    /\ r.body = StringifyAll(SelectSeq(store, LAMBDA a : InStringWindow(a, Now(clock))))

\* C1: list active returns exactly the stored announcements that have started
\* and have not expired and changes nothing in the store; in particular an
\* announcement with no start_date whose expiration_date is not in the past is
\* returned, and an announcement whose expiration_date is in the past is omitted.
C1_ActiveListIsDateWindow ==
    /\ ActiveIsStringWindow
    /\ \A k \in 1..Len(store) :
        /\ (~Truthy(store[k].start_date) /\ ~ExpirationInPast(store[k], Now(clock)))
              => Str(store[k]._id) \in Listed(ActiveNow)
        /\ ExpirationInPast(store[k], Now(clock))
              => Str(store[k]._id) \notin Listed(ActiveNow)

\* C2 as stated: an announcement whose expiration_date equals the current
\* timestamp is excluded from the active list.
C2_ExpiringNowIsExcluded ==
    \A k \in 1..Len(store) :
        store[k].expiration_date = Now(clock) => Str(store[k]._id) \notin Listed(ActiveNow)

\* C2 amended: the window is closed at both ends in the order of strings: an
\* announcement is listed exactly when start_date is absent or <= now and
\* expiration_date is absent or >= now, so one whose expiration_date equals the
\* current timestamp is listed once it has started.
C2_WindowIsClosedAtExpiration ==
    \A k \in 1..Len(store) :
        LET a == store[k] IN
        /\ Str(a._id) \in Listed(ActiveNow)
             <=> /\ Truthy(a.start_date) => StrLessEq(a.start_date, Now(clock))
                 /\ Truthy(a.expiration_date) => StrLessEq(Now(clock), a.expiration_date)
        /\ (a.expiration_date = Now(clock) /\ ~Truthy(a.start_date))
             => Str(a._id) \in Listed(ActiveNow)

\* a stored announcement whose expiration_date is the current timestamp has
\* just been returned by list active
C2_Witness ==
    /\ resp.op = "list_active"
    /\ \E k \in 1..Len(store) :
          /\ store[k].expiration_date = Now(clock)
          /\ Str(store[k]._id) \in Listed(ActiveNow)

\* the results of every request a user without a teacher record can make
UnauthorizedResults(username) ==
    { get_all_announcements(store, nextId, username) }
    \cup { create_announcement(store, nextId, Now(clock), a, username) : a \in CreatePayloads }
    \cup { update_announcement(store, nextId, i, a, username) :
              i \in IdInputs, a \in UpdatePayloads }
    \cup { delete_announcement(store, nextId, i, username) : i \in IdInputs }

\* C3: for a username with no teacher record, create, update, delete and list-all
\* return 401 whatever the rest of the request is, and the collection is unchanged.
C3_UnauthorizedAlways401 ==
    \A username \in Usernames \ Teachers :
        \A r \in UnauthorizedResults(username) :
            r.status = 401 /\ r.store = store /\ r.nextId = nextId

\* an update by a user without a teacher record was answered 401 while
\* announcements were stored
C3_Witness == resp.op = "update" /\ resp.status = 401 /\ Len(store) > 0

\* the fields an update may set
UpdatableFields == {"message", "start_date", "expiration_date"}

\* new is old with exactly the supplied fields of the body set
OnlySuppliedFieldsSet(old, new, announcement) ==
    /\ DOMAIN new = DOMAIN old
    /\ \A f \in UpdatableFields :
          new[f] = IF announcement[f] # None THEN announcement[f] ELSE old[f]
    /\ \A f \in DOMAIN old \ UpdatableFields : new[f] = old[f]

\* C4, one request: a successful update of X sets exactly the supplied fields
\* of X, leaves every other stored announcement as it was, and returns X.
UpdateSetsOnlySuppliedFields ==
    \A i \in IdInputs, a \in UpdatePayloads, username \in Usernames :
        LET r == update_announcement(store, nextId, i, a, username) IN
        r.status = 200 =>
            /\ Len(r.store) = Len(store)
            /\ \A k \in 1..Len(store) :
                  IF Str(store[k]._id) = i
                  THEN /\ OnlySuppliedFieldsSet(store[k], r.store[k], a)
                       /\ r.body = <<Stringify(r.store[k])>>
                  ELSE r.store[k] = store[k]

\* C4, every step: a stored announcement keeps its created_by and created_at
\* for as long as its identifier is stored.
CreationFieldsKept ==
    \A k \in 1..Len(store) : \A j \in 1..Len(store') :
        store'[j]._id = store[k]._id =>
            /\ store'[j].created_by = store[k].created_by
            /\ store'[j].created_at = store[k].created_at

\* C4: a successful update changes only the supplied fields of its announcement,
\* and across any sequence of operations the id, created_by and created_at of a
\* stored announcement never change.
C4_UpdateFrame == [](UpdateSetsOnlySuppliedFields) /\ [][CreationFieldsKept]_vars

\* an update that supplied message and expiration_date succeeded on an
\* announcement whose start_date is still the one it was created with, while
\* another announcement is stored untouched
C4_Witness ==
    /\ resp.op = "update" /\ resp.status = 200
    /\ \E k, j \in 1..Len(store) :
          /\ store[k].message = MsgBye /\ store[k].start_date = DLater
          /\ store[j].message = MsgHi /\ j # k

\* the identifier is well formed and matches no stored announcement
Unknown(i) ==
    ObjectIds[i] # <<>> /\ \A k \in 1..Len(store) : store[k]._id # ObjectIds[i][1]

\* the body supplies none of message, start_date, expiration_date
NoFields(a) == \A f \in UpdatableFields : a[f] = None

\* C5, first half: an authorized update whose identifier is well formed and
\* matches no stored announcement returns 404, whatever fields it supplies.
UpdateUnknownIs404 ==
    \A i \in IdInputs, a \in UpdatePayloads, username \in Teachers :
        Unknown(i) => update_announcement(store, nextId, i, a, username).status = 404

\* C5 as stated: ... and an authorized update that supplies no field returns 400.
C5_UnknownIs404AndNoFieldsIs400 ==
    /\ UpdateUnknownIs404
    /\ \A i \in IdInputs, a \in UpdatePayloads, username \in Teachers :
          NoFields(a) => update_announcement(store, nextId, i, a, username).status = 400

\* C5 amended: an authorized update that supplies no field returns 400 when its
\* identifier is malformed or matches a stored announcement, and 404 (as any
\* other update) when the identifier is well formed and matches nothing.
C5_NoFieldsIs400UnlessUnknown ==
    /\ UpdateUnknownIs404
    /\ \A i \in IdInputs, a \in UpdatePayloads, username \in Teachers :
          LET r == update_announcement(store, nextId, i, a, username) IN
          NoFields(a) => r.status = IF Unknown(i) THEN 404 ELSE 400
    /\ \A i \in IdInputs, username \in Teachers :
          LET r == update_announcement(store, nextId, i, Payload(None, None, None), username) IN
          (~Unknown(i) /\ ObjectIds[i] # <<>>) => r.detail = "No fields to update"

\* an update without fields on a stored announcement was answered 400
C5_Witness ==
    resp.op = "update" /\ resp.status = 400 /\ resp.detail = "No fields to update"

\* C6: an authorized delete of a stored announcement succeeds and removes exactly
\* that record; ever after, the identifier is in neither list and every update
\* or delete of it returns 404.
C6_DeleteIsPermanent ==
    /\ \A i \in IdInputs, username \in Teachers :
          LET r == delete_announcement(store, nextId, i, username) IN
          (\E k \in 1..Len(store) : Strs[store[k]._id] = i) =>
              /\ r.status = 200
              /\ r.store = SelectSeq(store, LAMBDA d : Strs[d._id] # i)
              /\ Len(r.store) = Len(store) - 1
    /\ \A oid \in deleted :
          /\ \A k \in 1..Len(store) : store[k]._id # oid
          /\ Strs[oid] \notin Listed(AllNow) \cup Listed(ActiveNow)
          /\ \A username \in Teachers :
                /\ delete_announcement(store, nextId, Strs[oid], username).status = 404
                /\ \A a \in UpdatePayloads :
                      update_announcement(store, nextId, Strs[oid], a, username).status = 404

\* a delete of an already deleted identifier was answered 404 after another
\* announcement had been created
C6_Witness ==
    /\ resp.op = "delete" /\ resp.status = 404
    /\ deleted # {} /\ Len(store) > 0

\* the results of every create, update and delete request
MutationResults ==
    { create_announcement(store, nextId, Now(clock), a, username) :
          a \in CreatePayloads, username \in Usernames }
    \cup { update_announcement(store, nextId, i, a, username) :
              i \in IdInputs, a \in UpdatePayloads, username \in Usernames }
    \cup { delete_announcement(store, nextId, i, username) :
              i \in IdInputs, username \in Usernames }

\* C9: a create, update or delete that ends in an error (401, 400 or 404) leaves
\* the collection as it was; in particular an update with a message and an
\* unparsable expiration_date is answered 400 and applies nothing.
C9_ErrorsChangeNothing ==
    /\ \A r \in MutationResults :
          /\ r.status \in {200, 400, 401, 404}
          /\ r.status # 200 => (r.store = store /\ r.nextId = nextId)
    /\ \A i \in IdInputs, a \in UpdatePayloads, username \in Teachers :
          LET r == update_announcement(store, nextId, i, a, username) IN
          (a.expiration_date # None /\ ~Parsable[a.expiration_date]
              /\ ~Unknown(i) /\ ObjectIds[i] # <<>>)
          => r.status = 400 /\ r.store = store

\* an update with a message and an unparsable expiration_date was answered 400
\* while announcements were stored
C9_Witness ==
    /\ resp.op = "update" /\ resp.status = 400 /\ resp.detail = "Invalid date format"
    /\ Len(store) > 0

\* now lies in [start_date, expiration_date) as instants, a missing start_date
\* being the unbounded past
InActiveWindow(a, now) ==
    /\ Truthy(a.start_date) => ~Before(Instant(now), Instant(a.start_date))
    /\ Before(Instant(now), Instant(a.expiration_date))

\* C7: a successful create returns and stores a record with the input's message,
\* start_date and expiration_date and the caller as created_by, under an
\* identifier no earlier create was given; right afterwards list all contains
\* the record, and list active contains it exactly when it is in the active
\* window (a record created with a past expiration_date is in all, not in active).
C7_CreateReadBack ==
    \A a \in CreatePayloads, username \in Teachers :
        LET r == create_announcement(store, nextId, Now(clock), a, username) IN
        r.status = 200 =>
            LET doc    == r.body[1]
                all    == get_all_announcements(r.store, r.nextId, username).body
                active == get_active_announcements(r.store, r.nextId, Now(clock)).body
            IN
            /\ doc.message = a.message
            /\ doc.start_date = a.start_date
            /\ doc.expiration_date = a.expiration_date
            /\ doc.created_by = username
            /\ \A k \in 1..nextId : doc._id # Str(GeneratedId(k))
            /\ Stringify(r.store[Len(r.store)]) = doc
            /\ \E k \in 1..Len(all) : all[k] = doc
            /\ (\E k \in 1..Len(active) : active[k] = doc) <=> InActiveWindow(doc, Now(clock))
            /\ ExpirationInPast(doc, Now(clock)) => doc._id \notin Listed(active)

\* C8: every stored announcement has an expiration_date that is present and
\* parsable, and a start_date that is absent (None or empty) or parsable.
C8_StoredDatesParsable ==
    \A k \in 1..Len(store) :
        /\ store[k].expiration_date # None
        /\ IsIsoFormat(store[k].expiration_date)
        /\ ~Truthy(store[k].start_date) \/ IsIsoFormat(store[k].start_date)

\* C10: under any interleaving of update and delete requests, every request ends
\* with success or one of 401, 400, 404: no update finds its announcement gone
\* at the read after its write and fails with an unhandled error.
C10_NoUnhandledError ==
    \A p \in DOMAIN local : local[p].status \in {0, 200, 400, 401, 404}

====
